---- MODULE Spec2Model ----
(***************************************************************************)
(* Model of the Cosmos Hub governance vote notification bot                *)
(* (netlify/functions/gov-vote-notify/gov-vote-notify.py).                 *)
(*                                                                         *)
(* A scheduled trigger invokes handler; handler walks the configured       *)
(* proposal ids and runs process_proposal for each: it pages through the   *)
(* votes and the bonded validators of the chain API, loads the seen-votes  *)
(* mapping from the key-value store, posts one Slack message per vote of   *)
(* a voter it has not seen, and writes the mapping back.                   *)
(*                                                                         *)
(* Every blocking I/O call of the code (an HTTP request, a store get or    *)
(* set) is one step of the model; the computation between two I/O calls    *)
(* belongs to the step of the call before it.  io[p] is the list of I/O    *)
(* calls invocation p has made so far (a history variable).                *)
(***************************************************************************)
EXTENDS Integers, Sequences, FiniteSets, TLC

VARIABLES
    env,      \* os.environ: PROPOSAL_IDS, SLACK_WEBHOOK_URL, SLACK_ERROR_WEBHOOK_URL
    chain,    \* chain API, votes resource: proposal id -> list of votes
    bonded,   \* chain API, validators resource: list of bonded validators
    store,    \* key-value store: key -> stored text
    now,      \* the wall clock (datetime.now), in ticks of the schedule
    runs,     \* number of invocations the trigger has started
    procs,    \* the invocations the trigger layer may run side by side
    inv,      \* per invocation: position and local variables of handler / process_proposal
    io,       \* per invocation: the I/O calls made so far, in order (history)
    run,      \* per invocation: the current call of process_proposal (history)
    last,     \* per proposal: the last call of process_proposal that returned, or
              \* whose post failed (history)
    notified  \* per proposal: the voters of the posts the webhook accepted (history)

vars == <<env, chain, bonded, store, now, runs, procs, inv, io, run, last, notified>>

-----------------------------------------------------------------------------
(* Bounds of the model *)

MaxVotes == 2        \* votes the chain comes to hold per proposal while the bot runs
MaxFetched == 3      \* votes the chain holds from the start (SpecDiff)
MaxIdsLen == 3       \* characters of PROPOSAL_IDS
MaxRuns == 2         \* invocations started by the trigger
PageLimit == 1       \* items the API serves per page
MaxValidators == 3   \* validators the API lists (SpecValidators)

-----------------------------------------------------------------------------
(* Values *)

Invocations == {"inv1", "inv2"}

\* Python strings whose characters matter are sequences of characters.
Chars == {"1", "2", ",", " "}

\* bech32 strings: the prefix and payload they decode to, ok = FALSE when
\* the checksum or the character set is wrong.
Addr(hrp, data, ok) == [hrp |-> hrp, data |-> data, ok |-> ok]
Account(n) == Addr("cosmos", n, TRUE)
Voters == {Account(1), Account(2), Account(3)}

VoteOptions == {"VOTE_OPTION_YES", "VOTE_OPTION_NO"}
\* A vote of the API; options is the list of its option entries (may be empty).
Vote(voter, options) == [voter |-> voter, options |-> options]

\* Proposal ids are strings as well; these two exist on the chain.
KnownProposals == {<<"1">>, <<"2">>}

-----------------------------------------------------------------------------
(* Sequence helpers *)

RECURSIVE SeqsUpTo(_, _)
SeqsUpTo(S, n) ==
    IF n = 0 THEN {<<>>}
    ELSE LET shorter == SeqsUpTo(S, n - 1)
         IN shorter \cup {Append(s, x) : s \in {t \in shorter : Len(t) = n - 1}, x \in S}

Slice(s, from, to) == [i \in 1..(IF to >= from THEN to - from + 1 ELSE 0) |-> s[from + i - 1]]

Min(a, b) == IF a <= b THEN a ELSE b

-----------------------------------------------------------------------------
(* str.split(",") and str.strip() -- handler, lines 18 and 33 *)

HasComma(s) == \E i \in DOMAIN s : s[i] = ","
FirstComma(s) == CHOOSE i \in DOMAIN s : s[i] = "," /\ \A j \in 1..(i - 1) : s[j] # ","

\* "".split(",") is [""]: the result always has at least one entry.
RECURSIVE split(_)
split(s) ==
    IF ~HasComma(s) THEN <<s>>
    ELSE <<Slice(s, 1, FirstComma(s) - 1)>> \o split(Slice(s, FirstComma(s) + 1, Len(s)))

RECURSIVE lstrip(_)
lstrip(s) == IF s # <<>> /\ s[1] = " " THEN lstrip(Tail(s)) ELSE s

RECURSIVE rstrip(_)
rstrip(s) == IF s # <<>> /\ s[Len(s)] = " " THEN rstrip(Slice(s, 1, Len(s) - 1)) ELSE s

strip(s) == rstrip(lstrip(s))

-----------------------------------------------------------------------------
(* Key-value store: get(key) -> Optional[str], set(key, value) *)

\* What store.get can return: None (no value under the key), or a text:
\* the empty text, a text that is not JSON, or the text json.dumps gives
\* for a mapping.
NoValue == [kind |-> "None", value |-> <<>>]
EmptyText == [kind |-> "empty", value |-> <<>>]
Garbage == [kind |-> "not json", value |-> <<>>]

\* json.dumps(mapping) -- line 124
json_dumps(m) == [kind |-> "json", value |-> m]
\* json.loads(text) raises JSONDecodeError unless the text is JSON -- line 107
JsonParses(s) == s.kind = "json"
json_loads(s) == s.value

\* Python truthiness of Optional[str]: None and "" are falsy
TruthyText(s) == s.kind \notin {"None", "empty"}

store_get(st, key) == IF key \in DOMAIN st THEN st[key] ELSE NoValue
store_set(st, key, value) == [k \in DOMAIN st \cup {key} |-> IF k = key THEN value ELSE st[k]]

\* f"seen_votes_{proposal_id}" -- line 105
seen_key_of(proposal_id) == <<"seen_votes_">> \o proposal_id

Keys(m) == DOMAIN m

-----------------------------------------------------------------------------
(* Chain API: GET .../votes and GET .../validators, served in pages *)

\* A continuation key: Python None, the empty string, or an opaque token
\* (the server's tokens name the offset of the next page).
NoKey == [kind |-> "None", offset |-> 0]
EmptyKey == [kind |-> "empty", offset |-> 0]
Token(n) == [kind |-> "token", offset |-> n]

\* not pagination_key -- lines 137, 147, 162, 179
TruthyKey(k) == k.kind = "token"

\* How a last page says that nothing follows: no "pagination" object, a
\* pagination object without "next_key", next_key null, next_key "".
Terminators == {"no pagination", "no next_key", "null", "empty"}

\* The page the API serves for a request carrying continuation key `key`
\* (NoKey: the request has no pagination.key parameter).  items_field is
\* FALSE when the response carries no items field at all.
ServePage(list, key, term, items_field) ==
    LET offset == IF key.kind = "token" THEN key.offset ELSE 0
        upto == Min(offset + PageLimit, Len(list))
        more == offset + PageLimit < Len(list)
    IN  [items |-> Slice(list, offset + 1, upto),
         items_field |-> items_field,
         next_key |-> IF more THEN "token" ELSE term,
         token |-> IF more THEN offset + PageLimit ELSE 0]

\* data.get("votes", []) / data.get("validators", []) -- lines 144, 169
get_items(data) == IF data.items_field THEN data.items ELSE <<>>

\* data.get("pagination", {}).get("next_key") -- lines 145, 178
get_next_key(data) ==
    CASE data.next_key = "token" -> Token(data.token)
      [] data.next_key = "empty" -> EmptyKey
      [] OTHER -> NoKey

\* params of the request: pagination.key is sent only when the key is truthy
\* -- lines 136-138, 161-163
request_key(pagination_key) == IF TruthyKey(pagination_key) THEN pagination_key ELSE NoKey

\* fetch_all_votes_step as it would be if each page replaced the list
fetch_all_votes_step_replace(votes, data) ==
    [votes |-> get_items(data),
     pagination_key |-> get_next_key(data),
     done |-> ~TruthyKey(get_next_key(data))]

\* One iteration of the loop of fetch_all_votes on response `data` --
\* lines 142-148; done is the break.
fetch_all_votes_step(votes, data) ==
    [votes |-> votes \o get_items(data),
     pagination_key |-> get_next_key(data),
     done |-> ~TruthyKey(get_next_key(data))]

-----------------------------------------------------------------------------
(* Validators *)

Operator(n) == Addr("cosmosvaloper", n, TRUE)
NoAddr == Addr("", 0, FALSE)

\* A validator of the API response
Validator(op, tokens, moniker) == [operator_address |-> op, tokens |-> tokens, moniker |-> moniker]

\* Voting power in percent, kept exact: numerator and denominator of
\* tokens / total_power * 100, and 0 when total_power is 0 -- line 184
voting_power_pct(tokens, total_power) ==
    IF total_power > 0 THEN [num |-> tokens * 100, den |-> total_power]
    ELSE [num |-> 0, den |-> 1]

\* for v in data.get("validators", []) -- lines 169-176; validators is the
\* dict operator_address -> info, total_power the running sum.
RECURSIVE add_validators(_, _, _)
add_validators(validators, total_power, items) ==
    IF items = <<>> THEN [validators |-> validators, total_power |-> total_power]
    ELSE LET v == Head(items)
             info == [moniker |-> v.moniker, tokens |-> v.tokens,
                      operator_address |-> v.operator_address]
         IN add_validators(
                [o \in DOMAIN validators \cup {v.operator_address} |->
                    IF o = v.operator_address THEN info ELSE validators[o]],
                total_power + v.tokens,
                Tail(items))

\* for v in validators.values(): v["voting_power_pct"] = ... -- lines 183-184
with_voting_power(validators, total_power) ==
    [o \in DOMAIN validators |->
        [moniker |-> validators[o].moniker,
         tokens |-> validators[o].tokens,
         operator_address |-> validators[o].operator_address,
         voting_power_pct |-> voting_power_pct(validators[o].tokens, total_power)]]

\* operator_to_account -- lines 189-197: None unless the address decodes
\* with prefix cosmosvaloper
operator_to_account(operator_address) ==
    IF operator_address.ok /\ operator_address.hrp = "cosmosvaloper"
    THEN Addr("cosmos", operator_address.data, TRUE)
    ELSE NoAddr

\* build_account_to_validator_mapping -- lines 200-207
build_account_to_validator_mapping(validators) ==
    LET accounts == {operator_to_account(o) : o \in DOMAIN validators} \ {NoAddr}
    IN  [a \in accounts |->
            validators[CHOOSE o \in DOMAIN validators : operator_to_account(o) = a]]

-----------------------------------------------------------------------------
(* The vote diff and the notification *)

\* The voters of a list of votes
Voted(votes) == {votes[n].voter : n \in DOMAIN votes}

\* vote["options"][0]["option"] if vote.get("options") else "UNKNOWN" -- line 115
first_option(vote) == IF vote.options # <<>> THEN vote.options[1] ELSE "UNKNOWN"

\* diff_votes as it would be if a changed option counted as a new vote
RECURSIVE diff_votes_amendments(_, _, _, _)
diff_votes_amendments(votes, seen_votes, new_votes, timestamp) ==
    IF votes = <<>> THEN [seen_votes |-> seen_votes, new_votes |-> new_votes]
    ELSE LET vote == Head(votes)
             voter == vote.voter
             record == [option |-> first_option(vote), timestamp |-> timestamp]
         IN IF voter \notin DOMAIN seen_votes \/ seen_votes[voter].option # record.option
            THEN diff_votes_amendments(
                    Tail(votes),
                    [v \in DOMAIN seen_votes \cup {voter} |->
                        IF v = voter THEN record ELSE seen_votes[v]],
                    Append(new_votes, vote),
                    timestamp)
            ELSE diff_votes_amendments(Tail(votes), seen_votes, new_votes, timestamp)

\* diff_votes as it would be if it stamped every fetched voter anew
RECURSIVE diff_votes_restamp(_, _, _, _)
diff_votes_restamp(votes, seen_votes, new_votes, timestamp) ==
    IF votes = <<>> THEN [seen_votes |-> seen_votes, new_votes |-> new_votes]
    ELSE LET vote == Head(votes)
             voter == vote.voter
             record == [option |-> first_option(vote), timestamp |-> timestamp]
         IN diff_votes_restamp(
                Tail(votes),
                [v \in DOMAIN seen_votes \cup {voter} |->
                    IF v = voter THEN record ELSE seen_votes[v]],
                IF voter \notin DOMAIN seen_votes THEN Append(new_votes, vote) ELSE new_votes,
                timestamp)

\* diff_votes as it would be if a new voter were not recorded at once
RECURSIVE diff_votes_unrecorded(_, _, _, _)
diff_votes_unrecorded(votes, seen_votes, new_votes, timestamp) ==
    IF votes = <<>>
    THEN [seen_votes |->
            [v \in DOMAIN seen_votes \cup Voted(new_votes) |->
                IF v \in DOMAIN seen_votes THEN seen_votes[v]
                ELSE [option |-> "UNKNOWN", timestamp |-> timestamp]],
          new_votes |-> new_votes]
    ELSE IF Head(votes).voter \notin DOMAIN seen_votes
         THEN diff_votes_unrecorded(Tail(votes), seen_votes, Append(new_votes, Head(votes)),
                                    timestamp)
         ELSE diff_votes_unrecorded(Tail(votes), seen_votes, new_votes, timestamp)

\* diff_votes as it would be if it took over the option of a voter it has
\* already recorded
RECURSIVE diff_votes_refresh(_, _, _, _)
diff_votes_refresh(votes, seen_votes, new_votes, timestamp) ==
    IF votes = <<>> THEN [seen_votes |-> seen_votes, new_votes |-> new_votes]
    ELSE LET vote == Head(votes)
             voter == vote.voter
         IN diff_votes_refresh(
                Tail(votes),
                [v \in DOMAIN seen_votes \cup {voter} |->
                    IF v # voter THEN seen_votes[v]
                    ELSE [option |-> first_option(vote),
                          timestamp |-> IF voter \in DOMAIN seen_votes
                                        THEN seen_votes[voter].timestamp ELSE timestamp]],
                IF voter \notin DOMAIN seen_votes THEN Append(new_votes, vote) ELSE new_votes,
                timestamp)

\* The loop of lines 109-117 over the fetched votes: r.seen_votes is the
\* mapping, r.new_votes the new votes in fetch order.
RECURSIVE diff_votes(_, _, _, _)
diff_votes(votes, seen_votes, new_votes, timestamp) ==
    IF votes = <<>> THEN [seen_votes |-> seen_votes, new_votes |-> new_votes]
    ELSE LET vote == Head(votes)
             voter == vote.voter
         IN IF voter \notin DOMAIN seen_votes
            THEN diff_votes(
                    Tail(votes),
                    [v \in DOMAIN seen_votes \cup {voter} |->
                        IF v = voter
                        THEN [option |-> first_option(vote), timestamp |-> timestamp]
                        ELSE seen_votes[v]],
                    Append(new_votes, vote),
                    timestamp)
            ELSE diff_votes(Tail(votes), seen_votes, new_votes, timestamp)

\* format_vote_option -- lines 238-246
format_vote_option(option) ==
    CASE option = "VOTE_OPTION_YES" -> "Yes"
      [] option = "VOTE_OPTION_NO" -> "No"
      [] option = "VOTE_OPTION_ABSTAIN" -> "Abstain"
      [] option = "VOTE_OPTION_NO_WITH_VETO" -> "NoWithVeto"
      [] OTHER -> option

\* The message notify_vote composes -- lines 212-232.  who is the moniker
\* and voting power of the validator, or the voter's address (its
\* shortening for display is not modelled).
compose_message(vote, proposal_id, validator_by_account, timestamp) ==
    [validator |-> vote.voter \in DOMAIN validator_by_account,
     moniker |-> IF vote.voter \in DOMAIN validator_by_account
                 THEN validator_by_account[vote.voter].moniker ELSE "",
     vp |-> IF vote.voter \in DOMAIN validator_by_account
            THEN validator_by_account[vote.voter].voting_power_pct
            ELSE [num |-> 0, den |-> 1],
     voter |-> vote.voter,
     option |-> IF vote.options # <<>> THEN format_vote_option(vote.options[1]) ELSE "Unknown",
     proposal |-> proposal_id,
     at |-> timestamp]

-----------------------------------------------------------------------------
(* State *)

\* os.environ.get(name): "None" when unset, "" when set to nothing
EnvValues == {"None", "", "url"}
TruthyEnv(x) == x \notin {"None", ""}

\* The locals of an invocation that is not running
IdleInv ==
    [pc |-> "idle",
     proposal_ids |-> <<>>, slack_webhook |-> "None", error_webhook |-> "None",
     i |-> 0, proposal_id |-> <<>>,
     votes |-> <<>>, fetched |-> <<>>, pagination_key |-> NoKey,
     validators |-> <<>>, total_power |-> 0, validator_by_account |-> <<>>,
     seen_votes |-> <<>>, new_votes |-> <<>>, k |-> 0,
     exception |-> "None", result |-> "None"]

NoRun ==
    [phase |-> "none", proposal_id |-> <<>>, mark |-> 0, prior |-> NoValue,
     loaded |-> <<>>, returned |-> 0,
     prev |-> [done |-> FALSE, votes |-> <<>>, written |-> NoValue,
              unpersisted |-> <<>>, posted |-> 0]]

NoLast == [done |-> FALSE, votes |-> <<>>, written |-> NoValue, unpersisted |-> <<>>, posted |-> 0]

\* The initial states: configuration ids/hooks/errhooks, the chain's votes
\* and validators, what the store holds, which invocations may run.
InitWith(idsSet, hooks, errhooks, chains, bondedSet, stores, procSets) ==
    /\ env \in [PROPOSAL_IDS : idsSet, SLACK_WEBHOOK_URL : hooks,
                SLACK_ERROR_WEBHOOK_URL : errhooks]
    /\ chain \in chains
    /\ bonded \in bondedSet
    /\ store \in stores
    /\ procs \in procSets
    /\ now = 0
    /\ runs = 0
    /\ inv = [p \in Invocations |-> IdleInv]
    /\ io = [p \in Invocations |-> <<>>]
    /\ run = [p \in Invocations |-> NoRun]
    /\ last = [pid \in KnownProposals |-> NoLast]
    /\ notified = [pid \in KnownProposals |-> {}]

Log(p, event) == [io EXCEPT ![p] = Append(@, event)]

-----------------------------------------------------------------------------
(* handler -- lines 15-40 *)

\* ConfigError as it would be if the webhook were not checked
ConfigErrorIdsOnly(proposal_ids, slack_webhook) ==
    IF proposal_ids = <<>> \/ proposal_ids[1] = <<>>
    THEN "400 PROPOSAL_IDS not configured"
    ELSE "None"

\* The checks of lines 22-26: the body of the 400 response, or "None"
ConfigError(proposal_ids, slack_webhook) ==
    IF proposal_ids = <<>> \/ proposal_ids[1] = <<>>
    THEN "400 PROPOSAL_IDS not configured"
    ELSE IF ~TruthyEnv(slack_webhook)
    THEN "400 SLACK_WEBHOOK_URL not configured"
    ELSE "None"

CanStart(p) ==
    /\ p \in procs
    /\ inv[p].pc \in {"idle", "returned", "raised"}
    /\ runs < MaxRuns

\* lines 17-26: the trigger invokes handler, which finds the proposal ids
\* or the webhook not configured and returns 400
HandlerConfigError(p) ==
    /\ CanStart(p)
    /\ ConfigError(split(env.PROPOSAL_IDS), env.SLACK_WEBHOOK_URL) # "None"
    /\ inv' = [inv EXCEPT ![p] =
                [IdleInv EXCEPT !.pc = "returned",
                    !.proposal_ids = split(env.PROPOSAL_IDS),
                    !.slack_webhook = env.SLACK_WEBHOOK_URL,
                    !.error_webhook = env.SLACK_ERROR_WEBHOOK_URL,
                    !.result = ConfigError(split(env.PROPOSAL_IDS), env.SLACK_WEBHOOK_URL)]]
    /\ io' = [io EXCEPT ![p] = <<>>]
    /\ run' = [run EXCEPT ![p] = NoRun]
    /\ runs' = runs + 1
    /\ now' = now + 1
    /\ UNCHANGED <<env, chain, bonded, store, procs, last, notified>>

\* lines 17-31: the trigger invokes handler, the configuration is complete,
\* handler gets the store and enters the loop over the proposal ids
HandlerStart(p) ==
    /\ CanStart(p)
    /\ ConfigError(split(env.PROPOSAL_IDS), env.SLACK_WEBHOOK_URL) = "None"
    /\ inv' = [inv EXCEPT ![p] =
                [IdleInv EXCEPT !.pc = "loop",
                    !.proposal_ids = split(env.PROPOSAL_IDS),
                    !.slack_webhook = env.SLACK_WEBHOOK_URL,
                    !.error_webhook = env.SLACK_ERROR_WEBHOOK_URL,
                    !.i = 1]]
    /\ io' = [io EXCEPT ![p] = <<>>]
    /\ run' = [run EXCEPT ![p] = NoRun]
    /\ runs' = runs + 1
    /\ now' = now + 1
    /\ UNCHANGED <<env, chain, bonded, store, procs, last, notified>>

\* lines 32-34: an entry that is empty after strip() is skipped
SkipEmptyEntry(p) ==
    /\ inv[p].pc = "loop"
    /\ inv[p].i <= Len(inv[p].proposal_ids)
    /\ strip(inv[p].proposal_ids[inv[p].i]) = <<>>
    /\ inv' = [inv EXCEPT ![p].i = @ + 1]
    /\ UNCHANGED <<env, chain, bonded, store, now, runs, procs, io, run, last, notified>>

\* lines 33-35 and 93-96: a non-empty entry: process_proposal is called
\* and starts fetch_all_votes (lines 131-132)
BeginProposal(p) ==
    LET proposal_id == strip(inv[p].proposal_ids[inv[p].i])
    IN  /\ inv[p].pc = "loop"
        /\ inv[p].i <= Len(inv[p].proposal_ids)
        /\ proposal_id # <<>>
        /\ inv' = [inv EXCEPT ![p].pc = "votes",
                              ![p].proposal_id = proposal_id,
                              ![p].votes = <<>>,
                              ![p].fetched = <<>>,
                              ![p].pagination_key = NoKey,
                              ![p].validators = <<>>,
                              ![p].total_power = 0,
                              ![p].validator_by_account = <<>>,
                              ![p].seen_votes = <<>>,
                              ![p].new_votes = <<>>,
                              ![p].k = 0]
        /\ run' = [run EXCEPT ![p] =
                    [NoRun EXCEPT !.phase = "running",
                        !.proposal_id = proposal_id,
                        !.mark = Len(io[p]),
                        !.prior = store_get(store, seen_key_of(proposal_id)),
                        !.prev = IF proposal_id \in DOMAIN last THEN last[proposal_id]
                                 ELSE NoLast]]
        /\ UNCHANGED <<env, chain, bonded, store, now, runs, procs, io, last, notified>>

\* line 36: every entry is done, handler returns 200
ReturnOK(p) ==
    /\ inv[p].pc = "loop"
    /\ inv[p].i > Len(inv[p].proposal_ids)
    /\ inv' = [inv EXCEPT ![p].pc = "returned", ![p].result = "200 OK"]
    /\ UNCHANGED <<env, chain, bonded, store, now, runs, procs, io, run, last, notified>>

-----------------------------------------------------------------------------
(* process_proposal -- lines 93-126 *)

\* An exception leaves process_proposal: the locals of the function it
\* was raised in are gone, handler's except clause is next.
Raise(p, exception) ==
    /\ inv' = [inv EXCEPT ![p].pc = "except", ![p].exception = exception,
                          ![p].fetched = <<>>, ![p].pagination_key = NoKey,
                          ![p].validators = <<>>, ![p].total_power = 0]
    /\ run' = [run EXCEPT ![p].phase = "raised"]

\* FetchVotesPage as it would be if process_proposal fetched the validators
\* only when the invocation had not fetched them before
FetchVotesPageOnce(p) ==
    /\ inv[p].pc = "votes"
    /\ inv[p].proposal_id \in DOMAIN chain
    /\ \E term \in Terminators, items_field \in BOOLEAN :
        LET key == request_key(inv[p].pagination_key)
            data == ServePage(chain[inv[p].proposal_id], key, term, items_field)
            step == fetch_all_votes_step(inv[p].fetched, data)
            cached == \E n \in DOMAIN io[p] : io[p][n].op = "store.get"
        IN  /\ items_field \/ data.items = <<>>
            /\ inv' = [inv EXCEPT ![p].fetched = IF step.done THEN <<>> ELSE step.votes,
                                  ![p].votes = IF step.done THEN step.votes ELSE <<>>,
                                  ![p].pagination_key =
                                        IF step.done THEN NoKey ELSE step.pagination_key,
                                  ![p].pc = IF ~step.done THEN "votes"
                                            ELSE IF cached THEN "load" ELSE "validators"]
            /\ io' = Log(p, [op |-> "GET votes", proposal |-> inv[p].proposal_id,
                             key |-> key, ok |-> TRUE])
    /\ UNCHANGED <<env, chain, bonded, store, now, runs, procs, run, last, notified>>

\* fetch_all_votes, one pass of the loop, lines 134-148: the request
\* succeeds.  fetched is the list fetch_all_votes accumulates; after the
\* last page it is returned into votes (line 96) and fetch_validators
\* starts (lines 155-157).
FetchVotesPage(p) ==
    /\ inv[p].pc = "votes"
    /\ inv[p].proposal_id \in DOMAIN chain
    /\ \E term \in Terminators, items_field \in BOOLEAN :
        LET key == request_key(inv[p].pagination_key)
            data == ServePage(chain[inv[p].proposal_id], key, term, items_field)
            step == fetch_all_votes_step(inv[p].fetched, data)
        IN  /\ items_field \/ data.items = <<>>
            /\ inv' = [inv EXCEPT ![p].fetched = IF step.done THEN <<>> ELSE step.votes,
                                  ![p].votes = IF step.done THEN step.votes ELSE <<>>,
                                  ![p].pagination_key =
                                        IF step.done THEN NoKey ELSE step.pagination_key,
                                  ![p].pc = IF step.done THEN "validators" ELSE "votes"]
            /\ io' = Log(p, [op |-> "GET votes", proposal |-> inv[p].proposal_id,
                             key |-> key, ok |-> TRUE])
    /\ UNCHANGED <<env, chain, bonded, store, now, runs, procs, run, last, notified>>

\* FetchVotesFail as it would be if the failure of a page were swallowed
\* and the pages fetched so far returned
FetchVotesFailPartial(p) ==
    /\ inv[p].pc = "votes"
    /\ inv' = [inv EXCEPT ![p].votes = inv[p].fetched, ![p].fetched = <<>>,
                          ![p].pagination_key = NoKey, ![p].pc = "validators"]
    /\ io' = Log(p, [op |-> "GET votes", proposal |-> inv[p].proposal_id,
                     key |-> request_key(inv[p].pagination_key), ok |-> FALSE])
    /\ UNCHANGED <<env, chain, bonded, store, now, runs, procs, run, last, notified>>

\* lines 140-141: the request times out or raise_for_status() raises
FetchVotesFail(p) ==
    /\ inv[p].pc = "votes"
    /\ Raise(p, "HTTPError: GET votes")
    /\ io' = Log(p, [op |-> "GET votes", proposal |-> inv[p].proposal_id,
                     key |-> request_key(inv[p].pagination_key), ok |-> FALSE])
    /\ UNCHANGED <<env, chain, bonded, store, now, runs, procs, last, notified>>

\* fetch_validators, one pass of the loop, lines 159-180.  validators and
\* total_power are its locals; after the last page: the voting power
\* (lines 183-184) and the account mapping process_proposal keeps (line 102).
FetchValidatorsPage(p) ==
    /\ inv[p].pc = "validators"
    /\ \E term \in Terminators, items_field \in BOOLEAN :
        LET key == request_key(inv[p].pagination_key)
            data == ServePage(bonded, key, term, items_field)
            added == add_validators(inv[p].validators, inv[p].total_power, get_items(data))
            next_key == get_next_key(data)
            done == ~TruthyKey(next_key)
            validators == IF done THEN with_voting_power(added.validators, added.total_power)
                          ELSE added.validators
        IN  /\ items_field \/ data.items = <<>>
            /\ inv' = [inv EXCEPT ![p].validators = IF done THEN <<>> ELSE validators,
                                  ![p].total_power = IF done THEN 0 ELSE added.total_power,
                                  ![p].pagination_key = IF done THEN NoKey ELSE next_key,
                                  ![p].validator_by_account =
                                        IF done
                                        THEN build_account_to_validator_mapping(validators)
                                        ELSE <<>>,
                                  ![p].pc = IF done THEN "load" ELSE "validators"]
            /\ io' = Log(p, [op |-> "GET validators", key |-> key, ok |-> TRUE])
    /\ UNCHANGED <<env, chain, bonded, store, now, runs, procs, run, last, notified>>

\* lines 165-166: the request times out or raise_for_status() raises
FetchValidatorsFail(p) ==
    /\ inv[p].pc = "validators"
    /\ Raise(p, "HTTPError: GET validators")
    /\ io' = Log(p, [op |-> "GET validators", key |-> request_key(inv[p].pagination_key),
                     ok |-> FALSE])
    /\ UNCHANGED <<env, chain, bonded, store, now, runs, procs, last, notified>>

\* CanLoad as it would be if only None counted as no data
CanLoadUnlessNone(seen_data) == seen_data.kind = "None" \/ JsonParses(seen_data)

\* json.loads(seen_data) if seen_data else {} -- line 107
CanLoad(seen_data) == ~TruthyText(seen_data) \/ JsonParses(seen_data)
load_seen_votes(seen_data) == IF TruthyText(seen_data) THEN json_loads(seen_data) ELSE <<>>

\* lines 105-117: store.get, json.loads and the diff
LoadSeen(p) ==
    LET seen_key == seen_key_of(inv[p].proposal_id)
        seen_data == store_get(store, seen_key)
        d == diff_votes(inv[p].votes, load_seen_votes(seen_data), <<>>, now)
    IN  /\ inv[p].pc = "load"
        /\ CanLoad(seen_data)
        /\ inv' = [inv EXCEPT ![p].seen_votes = d.seen_votes,
                              ![p].new_votes = d.new_votes,
                              ![p].k = 1,
                              ![p].pc = "notify"]
        /\ io' = Log(p, [op |-> "store.get", key |-> seen_key])
        /\ run' = [run EXCEPT ![p].loaded = load_seen_votes(seen_data)]
        /\ UNCHANGED <<env, chain, bonded, store, now, runs, procs, last, notified>>

\* line 107: json.loads raises on a text that is not JSON
LoadSeenFail(p) ==
    LET seen_key == seen_key_of(inv[p].proposal_id)
    IN  /\ inv[p].pc = "load"
        /\ ~CanLoad(store_get(store, seen_key))
        /\ Raise(p, "JSONDecodeError")
        /\ io' = Log(p, [op |-> "store.get", key |-> seen_key])
        /\ UNCHANGED <<env, chain, bonded, store, now, runs, procs, last, notified>>

NotifyEvent(p, ok) ==
    LET vote == inv[p].new_votes[inv[p].k]
    IN  [op |-> "POST slack", vote |-> vote, ok |-> ok,
         text |-> compose_message(vote, inv[p].proposal_id, inv[p].validator_by_account, now)]

\* NotifyVote as it would be if a voter the webhook has already been sent
\* were skipped
NotifyVoteDeduplicated(p) ==
    LET voter == inv[p].new_votes[inv[p].k].voter
        skip == voter \in notified[inv[p].proposal_id]
    IN  /\ inv[p].pc = "notify"
        /\ inv[p].k <= Len(inv[p].new_votes)
        /\ inv' = [inv EXCEPT ![p].k = @ + 1]
        /\ io' = IF skip THEN io ELSE Log(p, NotifyEvent(p, TRUE))
        /\ notified' = [notified EXCEPT ![inv[p].proposal_id] = @ \cup {voter}]
        /\ UNCHANGED <<env, chain, bonded, store, now, runs, procs, run, last>>

\* lines 119-121 and notify_vote: the post of the next new vote succeeds
NotifyVote(p) ==
    /\ inv[p].pc = "notify"
    /\ inv[p].k <= Len(inv[p].new_votes)
    /\ inv' = [inv EXCEPT ![p].k = @ + 1]
    /\ io' = Log(p, NotifyEvent(p, TRUE))
    /\ notified' = [notified EXCEPT ![inv[p].proposal_id] =
                        @ \cup {inv[p].new_votes[inv[p].k].voter}]
    /\ UNCHANGED <<env, chain, bonded, store, now, runs, procs, run, last>>

\* NotifyFail as it would be if process_proposal caught the failure of a
\* post and went on with the next new vote
NotifyFailContinue(p) ==
    /\ inv[p].pc = "notify"
    /\ inv[p].k <= Len(inv[p].new_votes)
    /\ inv' = [inv EXCEPT ![p].k = @ + 1]
    /\ io' = Log(p, NotifyEvent(p, FALSE))
    /\ UNCHANGED <<env, chain, bonded, store, now, runs, procs, run, last, notified>>

\* NotifyFail as it would be if process_proposal stored the mapping before
\* it posted the new votes
NotifyFailStored(p) ==
    /\ inv[p].pc = "notify"
    /\ inv[p].k <= Len(inv[p].new_votes)
    /\ Raise(p, "HTTPError: POST slack")
    /\ io' = Log(p, NotifyEvent(p, FALSE))
    /\ store' = store_set(store, seen_key_of(inv[p].proposal_id), json_dumps(inv[p].seen_votes))
    /\ last' = [pid \in DOMAIN last \cup {inv[p].proposal_id} |->
                    IF pid = inv[p].proposal_id
                    THEN [done |-> FALSE, votes |-> inv[p].votes, written |-> NoValue,
                          unpersisted |-> inv[p].new_votes, posted |-> inv[p].k - 1]
                    ELSE last[pid]]
    /\ UNCHANGED <<env, chain, bonded, now, runs, procs, notified>>

\* lines 234-235: the post times out or raise_for_status() raises; last
\* keeps the new votes of the run and how many of them were posted
NotifyFail(p) ==
    /\ inv[p].pc = "notify"
    /\ inv[p].k <= Len(inv[p].new_votes)
    /\ Raise(p, "HTTPError: POST slack")
    /\ io' = Log(p, NotifyEvent(p, FALSE))
    /\ last' = [pid \in DOMAIN last \cup {inv[p].proposal_id} |->
                    IF pid = inv[p].proposal_id
                    THEN [done |-> FALSE, votes |-> inv[p].votes, written |-> NoValue,
                          unpersisted |-> inv[p].new_votes, posted |-> inv[p].k - 1]
                    ELSE last[pid]]
    /\ UNCHANGED <<env, chain, bonded, store, now, runs, procs, notified>>

\* Persist as it would be if the store were written only for new votes
PersistIfNew(p) ==
    LET seen_key == seen_key_of(inv[p].proposal_id)
        value == json_dumps(inv[p].seen_votes)
        write == inv[p].new_votes # <<>>
    IN  /\ inv[p].pc = "notify"
        /\ inv[p].k > Len(inv[p].new_votes)
        /\ store' = IF write THEN store_set(store, seen_key, value) ELSE store
        /\ inv' = [inv EXCEPT ![p].pc = "loop", ![p].i = @ + 1]
        /\ io' = IF write THEN Log(p, [op |-> "store.set", key |-> seen_key, value |-> value])
                 ELSE io
        /\ run' = [run EXCEPT ![p].phase = "returned",
                              ![p].returned = Len(inv[p].new_votes)]
        /\ last' = [pid \in DOMAIN last \cup {inv[p].proposal_id} |->
                        IF pid = inv[p].proposal_id
                        THEN [done |-> TRUE, votes |-> inv[p].votes, written |-> value,
                              unpersisted |-> <<>>, posted |-> 0]
                        ELSE last[pid]]
        /\ UNCHANGED <<env, chain, bonded, now, runs, procs, notified>>

\* Persist as it would be if store.set came before the posts: the mapping
\* is written and process_proposal returns whatever is left to post
PersistBeforePosts(p) ==
    LET seen_key == seen_key_of(inv[p].proposal_id)
        value == json_dumps(inv[p].seen_votes)
    IN  /\ inv[p].pc = "notify"
        /\ store' = store_set(store, seen_key, value)
        /\ inv' = [inv EXCEPT ![p].pc = "loop", ![p].i = @ + 1]
        /\ io' = Log(p, [op |-> "store.set", key |-> seen_key, value |-> value])
        /\ run' = [run EXCEPT ![p].phase = "returned",
                              ![p].returned = Len(inv[p].new_votes)]
        /\ last' = [pid \in DOMAIN last \cup {inv[p].proposal_id} |->
                        IF pid = inv[p].proposal_id
                        THEN [done |-> TRUE, votes |-> inv[p].votes, written |-> value,
                              unpersisted |-> <<>>, posted |-> 0]
                        ELSE last[pid]]
        /\ UNCHANGED <<env, chain, bonded, now, runs, procs, notified>>

\* Persist as it would be if only the voters of this run's new votes were
\* written
PersistNewOnly(p) ==
    LET seen_key == seen_key_of(inv[p].proposal_id)
        value == json_dumps([v \in Voted(inv[p].new_votes) |-> inv[p].seen_votes[v]])
    IN  /\ inv[p].pc = "notify"
        /\ inv[p].k > Len(inv[p].new_votes)
        /\ store' = store_set(store, seen_key, value)
        /\ inv' = [inv EXCEPT ![p].pc = "loop", ![p].i = @ + 1]
        /\ io' = Log(p, [op |-> "store.set", key |-> seen_key, value |-> value])
        /\ run' = [run EXCEPT ![p].phase = "returned",
                              ![p].returned = Len(inv[p].new_votes)]
        /\ last' = [pid \in DOMAIN last \cup {inv[p].proposal_id} |->
                        IF pid = inv[p].proposal_id
                        THEN [done |-> TRUE, votes |-> inv[p].votes, written |-> value,
                              unpersisted |-> <<>>, posted |-> 0]
                        ELSE last[pid]]
        /\ UNCHANGED <<env, chain, bonded, now, runs, procs, notified>>

\* lines 123-126: every new vote is posted; store.set and return
Persist(p) ==
    LET seen_key == seen_key_of(inv[p].proposal_id)
        value == json_dumps(inv[p].seen_votes)
    IN  /\ inv[p].pc = "notify"
        /\ inv[p].k > Len(inv[p].new_votes)
        /\ store' = store_set(store, seen_key, value)
        /\ inv' = [inv EXCEPT ![p].pc = "loop", ![p].i = @ + 1]
        /\ io' = Log(p, [op |-> "store.set", key |-> seen_key, value |-> value])
        /\ run' = [run EXCEPT ![p].phase = "returned",
                              ![p].returned = Len(inv[p].new_votes)]
        /\ last' = [pid \in DOMAIN last \cup {inv[p].proposal_id} |->
                        IF pid = inv[p].proposal_id
                        THEN [done |-> TRUE, votes |-> inv[p].votes, written |-> value,
                              unpersisted |-> <<>>, posted |-> 0]
                        ELSE last[pid]]
        /\ UNCHANGED <<env, chain, bonded, now, runs, procs, notified>>

-----------------------------------------------------------------------------
(* handler, the except clause -- lines 37-40 *)

\* PostError as it would be without the try/except of lines 251-257: an
\* exception of the post to the error webhook replaces the one being handled
PostErrorUnguarded(p) ==
    /\ inv[p].pc = "except"
    /\ TruthyEnv(inv[p].error_webhook)
    /\ \E outcome \in {"ok", "status error", "exception"} :
        /\ io' = Log(p, [op |-> "POST error", text |-> inv[p].exception, outcome |-> outcome])
        /\ inv' = [inv EXCEPT ![p].pc = "reraise",
                              ![p].exception = IF outcome = "exception"
                                               THEN "ConnectionError: POST error" ELSE @]
    /\ UNCHANGED <<env, chain, bonded, store, now, runs, procs, run, last, notified>>

\* lines 38-39 and post_error_to_slack: the post to the error webhook; its
\* outcome is ignored (no raise_for_status, exceptions are swallowed)
PostError(p) ==
    /\ inv[p].pc = "except"
    /\ TruthyEnv(inv[p].error_webhook)
    /\ \E outcome \in {"ok", "status error", "exception"} :
        io' = Log(p, [op |-> "POST error", text |-> inv[p].exception, outcome |-> outcome])
    /\ inv' = [inv EXCEPT ![p].pc = "reraise"]
    /\ UNCHANGED <<env, chain, bonded, store, now, runs, procs, run, last, notified>>

\* Reraise as it would be if the exception left handler before the report
ReraiseUnreported(p) ==
    /\ inv[p].pc \in {"reraise", "except"}
    /\ inv' = [inv EXCEPT ![p].pc = "raised", ![p].result = inv[p].exception]
    /\ UNCHANGED <<env, chain, bonded, store, now, runs, procs, io, run, last, notified>>

\* line 40: raise -- the exception leaves handler
Reraise(p) ==
    /\ \/ inv[p].pc = "reraise"
       \/ inv[p].pc = "except" /\ ~TruthyEnv(inv[p].error_webhook)
    /\ inv' = [inv EXCEPT ![p].pc = "raised", ![p].result = inv[p].exception]
    /\ UNCHANGED <<env, chain, bonded, store, now, runs, procs, io, run, last, notified>>

-----------------------------------------------------------------------------
(* Environment *)

\* An account votes on a proposal: the API lists one more vote
CastVote(proposal_id, vote) ==
    /\ proposal_id \in DOMAIN chain
    /\ Len(chain[proposal_id]) < MaxVotes
    /\ chain' = [chain EXCEPT ![proposal_id] = Append(@, vote)]
    /\ UNCHANGED <<env, bonded, store, now, runs, procs, inv, io, run, last, notified>>

\* A voter changes the option of a vote the API lists
ChangeVote(proposal_id, n, options) ==
    /\ proposal_id \in DOMAIN chain
    /\ n \in DOMAIN chain[proposal_id]
    /\ chain[proposal_id][n].options # options
    /\ chain' = [chain EXCEPT ![proposal_id][n].options = options]
    /\ UNCHANGED <<env, bonded, store, now, runs, procs, inv, io, run, last, notified>>

-----------------------------------------------------------------------------
(* Specifications *)

\* The bonded validators of the chain, more than a page; the third operator
\* address does not carry the prefix cosmosvaloper.
BondedList ==
    <<Validator(Operator(1), 1, "alice"),
      Validator(Operator(2), 3, "bob"),
      Validator(Addr("cosmos", 3, TRUE), 4, "carol")>>

InvocationStep(p) ==
    \/ HandlerConfigError(p)
    \/ HandlerStart(p)
    \/ SkipEmptyEntry(p)
    \/ BeginProposal(p)
    \/ ReturnOK(p)
    \/ FetchVotesPage(p)
    \/ FetchVotesFail(p)
    \/ FetchValidatorsPage(p)
    \/ FetchValidatorsFail(p)
    \/ LoadSeen(p)
    \/ LoadSeenFail(p)
    \/ NotifyVote(p)
    \/ NotifyFail(p)
    \/ Persist(p)
    \/ PostError(p)
    \/ Reraise(p)

\* No invocation is running
Quiet == \A p \in Invocations : inv[p].pc \in {"idle", "returned", "raised"}

EmptyChain == [pid \in KnownProposals |-> <<>>]
StoreWith(proposal_id, text) == [k \in {seen_key_of(proposal_id)} |-> text]

\* Spec: the invocations of the schedule one after the other, on proposal
\* 1 (PROPOSAL_IDS "1," or not configured); between two invocations
\* accounts vote and change their votes.
FewVoters == {Account(1), Account(2)}
FewOptionLists == {<<o>> : o \in VoteOptions}
FewVotes == {Vote(v, os) : v \in FewVoters, os \in FewOptionLists}

Init ==
    InitWith({<<>>, <<"1", ",">>}, {"None", "url"}, {"None", "url"},
             {EmptyChain}, {BondedList},
             {<<>>, StoreWith(<<"1">>, Garbage)},
             {{"inv1"}})

Next ==
    \/ \E p \in Invocations : InvocationStep(p)
    \/ /\ Quiet
       /\ \E vote \in FewVotes : CastVote(<<"1">>, vote)
    \/ /\ Quiet
       /\ \E n \in 1..MaxVotes, os \in FewOptionLists : ChangeVote(<<"1">>, n, os)

Spec == Init /\ [][Next]_vars

\* SpecDiff: process_proposal on every vote list of up to MaxFetched votes
\* of three accounts (one of them also with a vote that carries no
\* option), against every prior content of the store: nothing,
\* the empty text, a text that is not JSON, a mapping written earlier.
ManyVotes ==
    {Vote(v, <<"VOTE_OPTION_YES">>) : v \in Voters} \cup {Vote(Account(1), <<>>)}
PriorMappings ==
    {[v \in D |-> [option |-> "VOTE_OPTION_NO", timestamp |-> 0]] : D \in SUBSET Voters}
PriorTexts == {EmptyText, Garbage} \cup {json_dumps(m) : m \in PriorMappings}

InitDiff ==
    InitWith({<<>>, <<"1", ",">>}, {"url"}, {"None", "url"},
             {[EmptyChain EXCEPT ![<<"1">>] = votes] : votes \in SeqsUpTo(ManyVotes, MaxFetched)},
             {<<BondedList[1]>>},
             {<<>>} \cup {StoreWith(<<"1">>, text) : text \in PriorTexts},
             {{"inv1"}})

NextDiff == \E p \in Invocations : InvocationStep(p)

SpecDiff == InitDiff /\ [][NextDiff]_vars

\* SpecHandler: handler on every PROPOSAL_IDS of up to MaxIdsLen
\* characters, with and without the webhooks; each proposal has one vote,
\* the store is empty or holds a text that is not JSON for proposal 2.
OneVoteEach ==
    [pid \in KnownProposals |->
        IF pid = <<"1">> THEN <<Vote(Account(1), <<"VOTE_OPTION_YES">>)>>
        ELSE <<Vote(Account(2), <<>>)>>]

InitHandler ==
    InitWith(SeqsUpTo(Chars, MaxIdsLen), EnvValues, {"None", "url"},
             {OneVoteEach}, {<<BondedList[1]>>},
             {<<>>, StoreWith(<<"2">>, Garbage)}, {{"inv1"}})

NextHandler == \E p \in Invocations : InvocationStep(p)

SpecHandler == InitHandler /\ [][NextHandler]_vars

-----------------------------------------------------------------------------
(* Reading the history *)

\* The positions in io[p] of the calls made by the current (or last) call
\* of process_proposal
RunCalls(p) == {n \in DOMAIN io[p] : n > run[p].mark}
RunCallsOf(p, op) == {n \in RunCalls(p) : io[p][n].op = op}

\* The mapping a stored text stands for, when it is JSON
IsMapping(text) == JsonParses(text)

-----------------------------------------------------------------------------
(* Claims checked under Spec *)

\* C1: a voter that is a key of the persisted seen mapping of the proposal
\* when a run of process_proposal starts is not posted to the notification
\* sink in that run, whatever option its fetched vote carries
\* (runs one after the other).
C1_SeenVoterNotPosted ==
    \A p \in Invocations :
        \A n \in RunCallsOf(p, "POST slack") :
            ~(IsMapping(run[p].prior) /\ io[p][n].vote.voter \in Keys(json_loads(run[p].prior)))

\* C1, its case: a run has returned that fetched a vote of a voter it had
\* stored with another option.
C1_Witness ==
    \E p \in Invocations :
        /\ run[p].phase = "returned"
        /\ IsMapping(run[p].prior)
        /\ \E n \in DOMAIN inv[p].votes :
            LET vote == inv[p].votes[n]
            IN  /\ vote.voter \in Keys(json_loads(run[p].prior))
                /\ json_loads(run[p].prior)[vote.voter].option # first_option(vote)

\* C2: when a run of process_proposal follows a run for the same proposal
\* that returned, and fetches the same vote list, it finds no new vote,
\* posts nothing and leaves in the store the mapping the earlier run wrote
\* (same keys, same option and timestamp per key).
C2_SecondRunIdempotent ==
    \A p \in Invocations :
        (/\ run[p].phase = "returned"
         /\ run[p].prev.done
         /\ run[p].prev.votes = inv[p].votes)
        => /\ inv[p].new_votes = <<>>
           /\ run[p].returned = 0
           /\ RunCallsOf(p, "POST slack") = {}
           /\ store_get(store, seen_key_of(run[p].proposal_id)) = run[p].prev.written

\* C2, its case: the second of two such runs has returned, and the list
\* holds votes.
C2_Witness ==
    \E p \in Invocations :
        /\ run[p].phase = "returned"
        /\ run[p].prev.done
        /\ run[p].prev.votes = inv[p].votes
        /\ inv[p].votes # <<>>

\* C7: when a page request of the vote fetch or of the validator fetch
\* fails, the fetch raises and hands no partial list to process_proposal,
\* which posts no notification and writes nothing: the store holds what it
\* held when the run began.
FailedFetches(p) ==
    {n \in RunCalls(p) : io[p][n].op \in {"GET votes", "GET validators"} /\ ~io[p][n].ok}

C7_FailedFetchLeavesNoTrace ==
    \A p \in Invocations :
        FailedFetches(p) # {}
        => /\ inv[p].pc \in {"except", "reraise", "raised"}
           /\ run[p].phase = "raised"
           /\ inv[p].fetched = <<>>
           /\ (\E n \in FailedFetches(p) : io[p][n].op = "GET votes") => inv[p].votes = <<>>
           /\ inv[p].validator_by_account = <<>>
           /\ inv[p].new_votes = <<>>
           /\ RunCallsOf(p, "POST slack") = {}
           /\ RunCallsOf(p, "store.set") = {}
           /\ store_get(store, seen_key_of(run[p].proposal_id)) = run[p].prior

\* C7, its case: the request of a second page of votes has failed, after a
\* first page that was served.
C7_Witness ==
    \E p \in Invocations :
        /\ inv[p].pc = "raised"
        /\ \E n \in FailedFetches(p) : io[p][n].op = "GET votes" /\ io[p][n].key # NoKey
        /\ chain[run[p].proposal_id] # <<>>

-----------------------------------------------------------------------------
(* Claims checked under SpecDiff *)

\* The n-th smallest of a set of positions, and the subsequence of s at
\* the positions I
NthOf(I, k) == CHOOSE n \in I : Cardinality({m \in I : m < n}) = k - 1
Pick(s, I) == [k \in 1..Cardinality(I) |-> s[NthOf(I, k)]]

\* The positions of the votes whose voter is no key of seen and has no
\* earlier vote in the list
NewPositions(votes, seen) ==
    {n \in DOMAIN votes :
        /\ votes[n].voter \notin Keys(seen)
        /\ \A m \in 1..(n - 1) : votes[m].voter # votes[n].voter}

Diffed(p) == inv[p].pc = "notify" \/ run[p].phase = "returned"

\* C3: the new votes process_proposal computes are the fetched votes whose
\* voter is no key of the loaded seen mapping, in fetch order, first
\* occurrence of a voter only; the count it returns is their number.
C3_NewVotesAreTheUnseen ==
    \A p \in Invocations :
        Diffed(p)
        => /\ inv[p].new_votes = Pick(inv[p].votes, NewPositions(inv[p].votes, run[p].loaded))
           /\ run[p].phase = "returned"
                => run[p].returned = Cardinality(NewPositions(inv[p].votes, run[p].loaded))

\* C3, its case: three fetched votes, one of a voter already seen, the two
\* others returned as new.
C3_Witness ==
    \E p \in Invocations :
        /\ run[p].phase = "returned"
        /\ Len(inv[p].votes) = 3
        /\ Cardinality(Voted(inv[p].votes)) = 3
        /\ Cardinality(Voted(inv[p].votes) \cap Keys(run[p].loaded)) = 1
        /\ run[p].returned = 2

\* C4: a run of process_proposal that returns has written the key
\* seen_votes_{proposal id} exactly once, also with no new vote, and the
\* keys of the written mapping are the keys loaded and the fetched voters.
C4_OneWriteOfTheUnion ==
    \A p \in Invocations :
        run[p].phase = "returned"
        => /\ Cardinality(RunCallsOf(p, "store.set")) = 1
           /\ \A n \in RunCallsOf(p, "store.set") :
                /\ io[p][n].key = seen_key_of(run[p].proposal_id)
                /\ JsonParses(io[p][n].value)
                /\ Keys(json_loads(io[p][n].value))
                        = Keys(run[p].loaded) \cup Voted(inv[p].votes)
                /\ store_get(store, io[p][n].key) = io[p][n].value

\* C4, its case: a run that fetched votes, found none of them new, and
\* returned.
C4_Witness ==
    \E p \in Invocations :
        /\ run[p].phase = "returned"
        /\ inv[p].votes # <<>>
        /\ inv[p].new_votes = <<>>
        /\ RunCallsOf(p, "store.set") # {}

Loaded(p) == RunCallsOf(p, "store.get") # {}

\* C5 as the specification states it: with no value or an unparsable value
\* in the store the prior mapping is empty, every fetched voter is new, and
\* loading does not fail the run.
C5_UnparsableIsEmpty ==
    \A p \in Invocations :
        (Loaded(p) /\ ~IsMapping(run[p].prior))
        => /\ inv[p].exception # "JSONDecodeError"
           /\ run[p].loaded = <<>>
           /\ Voted(inv[p].new_votes) = Voted(inv[p].votes)

\* C5, amended: with no value or the empty text in the store the prior
\* mapping is empty, every fetched voter is new and loading does not fail;
\* a non-empty text that is not JSON makes json.loads raise: the run fails
\* with no notification posted and nothing written.
C5_AbsentOrEmptyIsEmpty ==
    \A p \in Invocations :
        Loaded(p)
        => /\ run[p].prior.kind \in {"None", "empty"}
                => /\ inv[p].exception # "JSONDecodeError"
                   /\ inv[p].pc \in {"notify", "loop", "returned", "except", "reraise", "raised"}
                   /\ run[p].loaded = <<>>
                   /\ Voted(inv[p].new_votes) = Voted(inv[p].votes)
           /\ run[p].prior.kind = "not json"
                => /\ inv[p].exception = "JSONDecodeError"
                   /\ run[p].phase = "raised"
                   /\ RunCallsOf(p, "POST slack") = {}
                   /\ RunCallsOf(p, "store.set") = {}
                   /\ store_get(store, seen_key_of(run[p].proposal_id)) = run[p].prior

\* C5, its case: the store held the empty text, votes were fetched, and
\* the run returned.
C5_Witness ==
    \E p \in Invocations :
        /\ run[p].phase = "returned"
        /\ run[p].prior = EmptyText
        /\ inv[p].votes # <<>>

\* The pages the API serves for a list
NumPages(list) == IF list = <<>> THEN 1 ELSE (Len(list) + PageLimit - 1) \div PageLimit

VotesFetched(p) == run[p].phase \in {"running", "returned"} /\ inv[p].pc # "votes"

\* C6: fetch_all_votes issues one request per page the API serves, the
\* first without a continuation key and each later one with the next_key
\* of the page before it, stops after the last page, and returns the items
\* of all pages in page order.
C6_OneRequestPerPage ==
    \A p \in Invocations :
        LET list == chain[run[p].proposal_id]
            G == RunCallsOf(p, "GET votes")
            first == run[p].mark + 1
        IN  /\ (run[p].phase = "running" /\ inv[p].pc = "votes")
                => Cardinality(G) < NumPages(list)
            /\ VotesFetched(p)
                => /\ Cardinality(G) = NumPages(list)
                   /\ G = first..(first + NumPages(list) - 1)
                   /\ io[p][first].key = NoKey
                   /\ \A n \in G \ {first} :
                        LET page == ServePage(list, io[p][n - 1].key, "null", TRUE)
                        IN  /\ page.next_key = "token"
                            /\ io[p][n].key = Token(page.token)
                   /\ inv[p].votes = list

\* C6, its case: a fetch over more than one page is done.
C6_Witness ==
    \E p \in Invocations :
        /\ VotesFetched(p)
        /\ Cardinality(RunCallsOf(p, "GET votes")) >= 2
        /\ Len(inv[p].votes) >= 2

-----------------------------------------------------------------------------
(* Claims checked under SpecHandler *)

\* The calls of invocation p that start a fetch of the validators
ValidatorFetches(p) ==
    {n \in DOMAIN io[p] : io[p][n].op = "GET validators" /\ io[p][n].key = NoKey}

\* The entries of the list that handler processes
ProcessedEntries(proposal_ids) == {j \in DOMAIN proposal_ids : strip(proposal_ids[j]) # <<>>}

\* C8 as the specification states it: an invocation that processes one or
\* more proposals fetches the validators once.
C8_ValidatorsFetchedOnce ==
    \A p \in Invocations :
        /\ Cardinality(ValidatorFetches(p)) <= 1
        /\ (inv[p].result = "200 OK" /\ ProcessedEntries(inv[p].proposal_ids) # {})
                => Cardinality(ValidatorFetches(p)) = 1

\* C8, amended: the validators are fetched and the directory is built once
\* per processed proposal, inside process_proposal: an invocation that
\* returns 200 has fetched them as many times as it has non-empty entries,
\* and a notification is composed with the directory fetched in the same
\* call of process_proposal.
C8_ValidatorsFetchedPerProposal ==
    \A p \in Invocations :
        /\ inv[p].result = "200 OK"
                => Cardinality(ValidatorFetches(p))
                        = Cardinality(ProcessedEntries(inv[p].proposal_ids))
        /\ \A n \in RunCallsOf(p, "POST slack") :
                \E m \in ValidatorFetches(p) : run[p].mark < m /\ m < n

\* C8, its case: an invocation with two proposals has returned 200 and has
\* posted a notification for the second.
C8_Witness ==
    \E p \in Invocations :
        /\ inv[p].result = "200 OK"
        /\ Cardinality(ProcessedEntries(inv[p].proposal_ids)) = 2
        /\ RunCallsOf(p, "POST slack") # {}
        /\ run[p].mark > 0

Failing(p) == inv[p].pc \in {"except", "reraise", "raised"}
ErrorPosts(p) == {n \in DOMAIN io[p] : io[p][n].op = "POST error"}

\* The call that raised: a request that failed, or the store.get whose
\* text json.loads rejected
IsFailedCall(p, event) ==
    \/ event.op \in {"GET votes", "GET validators", "POST slack"} /\ ~event.ok
    \/ event.op = "store.get" /\ inv[p].exception = "JSONDecodeError"

\* C9 as the specification states it: when the processing of a proposal
\* has failed, no later proposal is processed, and the failure has been
\* posted to the error sink exactly once when it leaves handler.
C9_ReportedOnceAlways ==
    \A p \in Invocations :
        inv[p].pc = "raised"
        => /\ Cardinality(ErrorPosts(p)) = 1
           /\ io[p][Len(io[p])].op = "POST error"

\* C9, amended: when the processing of a proposal has failed, no later
\* proposal is processed; with an error webhook configured the failure is
\* posted to the error sink exactly once, before it leaves handler; with
\* none configured it leaves handler without a post.
C9_AbortsAndReportsIfConfigured ==
    \A p \in Invocations :
        Failing(p)
        => LET posts == ErrorPosts(p)
               failed == Len(io[p]) - Cardinality(posts)
           IN  /\ run[p].phase = "raised"
               /\ inv[p].i \in DOMAIN inv[p].proposal_ids
               /\ strip(inv[p].proposal_ids[inv[p].i]) = run[p].proposal_id
               /\ failed > run[p].mark
               /\ IsFailedCall(p, io[p][failed])
               /\ posts = {n \in DOMAIN io[p] : n > failed}
               /\ Cardinality(posts) =
                    IF inv[p].pc = "except" \/ ~TruthyEnv(inv[p].error_webhook) THEN 0 ELSE 1
               /\ \A n \in posts : io[p][n].text = inv[p].exception

\* C9, its case: the first of two proposals has failed, the failure has
\* been posted and has left handler.
C9_Witness ==
    \E p \in Invocations :
        /\ inv[p].pc = "raised"
        /\ ErrorPosts(p) # {}
        /\ inv[p].i = 1
        /\ Cardinality(ProcessedEntries(inv[p].proposal_ids)) = 2

\* C10: when PROPOSAL_IDS or SLACK_WEBHOOK_URL is missing, handler returns
\* a 400 without I/O: no request to the chain API, no access to the store,
\* no post to the notification or the error webhook.
C10_ConfigErrorBeforeIO ==
    (env.PROPOSAL_IDS = <<>> \/ ~TruthyEnv(env.SLACK_WEBHOOK_URL))
    => \A p \in Invocations :
        /\ inv[p].pc \in {"idle", "returned"}
        /\ inv[p].pc = "returned"
                => inv[p].result \in {"400 PROPOSAL_IDS not configured",
                                      "400 SLACK_WEBHOOK_URL not configured"}
        /\ io[p] = <<>>
        /\ run[p] = NoRun

\* C10, its case: proposals are configured, the webhook is not, and
\* handler has returned.
C10_Witness ==
    \E p \in Invocations :
        /\ inv[p].pc = "returned"
        /\ inv[p].result = "400 SLACK_WEBHOOK_URL not configured"
        /\ ProcessedEntries(inv[p].proposal_ids) # {}

\* The proposals process_proposal was called for by invocation p, in order:
\* each call starts with one request for the first page of votes
FirstVoteRequests(p) ==
    {n \in DOMAIN io[p] : io[p][n].op = "GET votes" /\ io[p][n].key = NoKey}
ProcessedProposals(p) ==
    [k \in 1..Cardinality(FirstVoteRequests(p)) |-> io[p][NthOf(FirstVoteRequests(p), k)].proposal]

\* The entries of the list that are not empty after strip(), in list order
NonEmptyEntries(proposal_ids) ==
    [k \in 1..Cardinality(ProcessedEntries(proposal_ids)) |->
        strip(proposal_ids[NthOf(ProcessedEntries(proposal_ids), k)])]

\* C11: with the webhook configured, handler processes exactly the entries
\* of PROPOSAL_IDS that are not empty after trimming, each once and in list
\* order, wherever the empty entries are; a list with no such entry is a
\* configuration error.
C11_ProcessesTheNonEmptyEntries ==
    \A p \in Invocations :
        (inv[p].pc = "returned" /\ TruthyEnv(inv[p].slack_webhook))
        => IF ProcessedEntries(inv[p].proposal_ids) = {}
           THEN inv[p].result = "400 PROPOSAL_IDS not configured"
           ELSE /\ inv[p].result = "200 OK"
                /\ ProcessedProposals(p) = NonEmptyEntries(inv[p].proposal_ids)

\* The exception process_proposal raised in invocation p: that of the last
\* call before the posts to the error webhook
OriginalFailure(p) ==
    LET failed == io[p][Len(io[p]) - Cardinality(ErrorPosts(p))]
    IN  IF failed.op = "store.get" THEN "JSONDecodeError" ELSE "HTTPError: " \o failed.op

\* C12: what leaves handler after a failure is the failure of the
\* processing, never one of the post to the error webhook, whatever the
\* outcome of that post; the post carries the failure of the processing;
\* with no error webhook configured the failure leaves without a post.
C12_SinkFailureSwallowed ==
    \A p \in Invocations :
        inv[p].pc = "raised"
        => /\ inv[p].result = OriginalFailure(p)
           /\ \A n \in ErrorPosts(p) : io[p][n].text = OriginalFailure(p)
           /\ ~TruthyEnv(inv[p].error_webhook) => ErrorPosts(p) = {}
           /\ TruthyEnv(inv[p].error_webhook) => Cardinality(ErrorPosts(p)) = 1

\* C12, its case: the post to the error webhook raised, and the failed
\* fetch of the votes has left handler.
C12_Witness ==
    \E p \in Invocations :
        /\ inv[p].pc = "raised"
        /\ inv[p].result = "HTTPError: GET votes"
        /\ \E n \in ErrorPosts(p) : io[p][n].outcome = "exception"

\* The posts to the notification webhook of the current run of
\* process_proposal, in the order they were made
SlackPosts(p) == Pick(io[p], RunCallsOf(p, "POST slack"))

\* C15: a run of process_proposal posts the new votes one by one in the
\* order of new_votes, each at most once; a run that returns has posted
\* every one of them; a post that fails is the last post of the run: the
\* failure leaves process_proposal and the later new votes are not posted.
C15_OnePostPerNewVoteInOrder ==
    \A p \in Invocations :
        LET posts == SlackPosts(p)
        IN  /\ Len(posts) <= Len(inv[p].new_votes)
            /\ \A k \in DOMAIN posts :
                /\ posts[k].vote = inv[p].new_votes[k]
                /\ k < Len(posts) => posts[k].ok
            /\ run[p].phase = "returned"
                => /\ Len(posts) = Len(inv[p].new_votes)
                   /\ \A k \in DOMAIN posts : posts[k].ok
            /\ (posts # <<>> /\ ~posts[Len(posts)].ok)
                => /\ Failing(p)
                   /\ run[p].phase = "raised"
                   /\ inv[p].exception = "HTTPError: POST slack"
                   /\ RunCallsOf(p, "store.set") = {}

\* C15, its case: three new votes; the first was posted, the post of the
\* second failed, and the failure has left handler.
C15_Witness ==
    \E p \in Invocations :
        /\ inv[p].pc = "raised"
        /\ Len(inv[p].new_votes) = 3
        /\ Len(SlackPosts(p)) = 2
        /\ ~SlackPosts(p)[2].ok

\* The texts the current run of process_proposal wrote to the store
Written(p) == {io[p][n].value : n \in RunCallsOf(p, "store.set")}

\* C16: a fetched vote whose voter is a key of the loaded mapping leaves
\* the record of that voter as it was loaded: seen_votes, and the mapping
\* the run writes back, hold the loaded option and timestamp for every
\* loaded voter, whatever option the fetched vote carries.
C16_SeenRecordUntouched ==
    \A p \in Invocations :
        Diffed(p)
        => \A voter \in Keys(run[p].loaded) :
            /\ run[p].phase # "returned" => inv[p].seen_votes[voter] = run[p].loaded[voter]
            /\ \A text \in Written(p) : json_loads(text)[voter] = run[p].loaded[voter]
            /\ run[p].phase = "returned" => Written(p) # {}

\* C16, its case: a run has returned that fetched, at a later time, a vote
\* of a loaded voter with another option than the loaded one.
C16_Witness ==
    \E p \in Invocations :
        /\ run[p].phase = "returned"
        /\ \E n \in DOMAIN inv[p].votes :
            LET vote == inv[p].votes[n]
            IN  /\ vote.voter \in Keys(run[p].loaded)
                /\ run[p].loaded[vote.voter].option # first_option(vote)
                /\ run[p].loaded[vote.voter].timestamp # now

-----------------------------------------------------------------------------
(* Claims checked under Spec: a run whose post failed, and the run after *)

PostFailed(p) == Failing(p) /\ inv[p].exception = "HTTPError: POST slack"

\* C18: a run of process_proposal in which a post to the notification
\* webhook fails writes nothing to the store, which holds what it held
\* when the run began; in the next run of the proposal every new vote of
\* the failed run that is fetched again is new again, those the failed run
\* had posted included (runs one after the other).
C18_FailedPostLeavesVotesNew ==
    \A p \in Invocations :
        /\ PostFailed(p)
            => /\ RunCallsOf(p, "store.set") = {}
               /\ store_get(store, seen_key_of(run[p].proposal_id)) = run[p].prior
        /\ (Diffed(p) /\ run[p].prev.unpersisted # <<>>)
            => /\ \A k \in DOMAIN run[p].prev.unpersisted :
                    LET voter == run[p].prev.unpersisted[k].voter
                    IN  voter \in Voted(inv[p].votes) => voter \in Voted(inv[p].new_votes)
               /\ inv[p].votes = run[p].prev.votes
                    => inv[p].new_votes = run[p].prev.unpersisted

\* C18, its case: a run posted a first new vote and failed on the second;
\* the next run has fetched both again and has posted the first once more.
C18_Witness ==
    \E p \in Invocations :
        /\ inv[p].pc = "notify"
        /\ Len(run[p].prev.unpersisted) = 2
        /\ run[p].prev.posted = 1
        /\ inv[p].votes = run[p].prev.votes
        /\ Len(SlackPosts(p)) >= 1
        /\ SlackPosts(p)[1].vote = run[p].prev.unpersisted[1]

-----------------------------------------------------------------------------
(* Invocations side by side *)

\* SpecRace: the trigger layer runs two invocations of handler side by
\* side on proposal 1 and one store (last writer wins); accounts that have
\* not voted yet vote at any moment, so that the list the API serves grows
\* between the fetches of the two invocations.
RaceVotes == {Vote(v, <<"VOTE_OPTION_YES">>) : v \in FewVoters}

InitRace ==
    InitWith({<<>>, <<"1", ",">>}, {"url"}, {"None", "url"},
             {EmptyChain}, {<<BondedList[1]>>},
             {<<>>, StoreWith(<<"1">>, Garbage)},
             {{"inv1", "inv2"}})

NextRace ==
    \/ \E p \in Invocations : InvocationStep(p)
    \/ \E vote \in RaceVotes :
        /\ vote.voter \notin Voted(chain[<<"1">>])
        /\ CastVote(<<"1">>, vote)

SpecRace == InitRace /\ [][NextRace]_vars

\* The voters invocation p has posted to the webhook, with success, in its
\* current run of process_proposal
PostedVoters(p) == {io[p][n].vote.voter : n \in {m \in RunCallsOf(p, "POST slack") : io[p][m].ok}}

\* The mapping the store holds for a proposal, empty when it holds none
Persisted(st, proposal_id) ==
    LET text == store_get(st, seen_key_of(proposal_id))
    IN  IF IsMapping(text) THEN json_loads(text) ELSE <<>>

\* C13: two invocations that run process_proposal for the same proposal
\* side by side do not coordinate: a voter both have fetched and neither
\* has found in the mapping it loaded is a new vote of both, and each that
\* returns has posted it, whether or not the other has.
C13_BothRunsPostTheUnseenVote ==
    \A p, q \in Invocations :
        (p # q /\ Diffed(p) /\ Diffed(q) /\ run[p].proposal_id = run[q].proposal_id)
        => \A voter \in (Voted(inv[p].votes) \cap Voted(inv[q].votes))
                            \ (Keys(run[p].loaded) \cup Keys(run[q].loaded)) :
            /\ voter \in Voted(inv[p].new_votes)
            /\ run[p].phase = "returned" => voter \in PostedVoters(p)

\* C13, its case: both invocations have loaded the mapping and posted the
\* same voter before either has written: the webhook has received two
\* messages for that voter.
C13_Witness ==
    \E voter \in Voters :
        \A p \in Invocations :
            /\ inv[p].pc = "notify"
            /\ voter \in PostedVoters(p)
            /\ RunCallsOf(p, "store.set") = {}

\* C14 as the specification states it: every write to the store keeps
\* every voter of the mapping stored just before, also when invocations
\* overlap.
C14_StoreOnlyGrows ==
    [][\A proposal_id \in KnownProposals :
            Keys(Persisted(store, proposal_id)) \subseteq Keys(Persisted(store', proposal_id))]_vars

\* C14, amended: the mapping a run of process_proposal writes holds every
\* voter of the mapping that run loaded, and every voter it fetched; a
\* voter another invocation has written since the load is not kept.
C14_WriteKeepsWhatWasLoaded ==
    \A p \in Invocations :
        \A text \in Written(p) :
            /\ IsMapping(text)
            /\ Keys(json_loads(text)) = Keys(run[p].loaded) \cup Voted(inv[p].votes)

\* C14, its case: two invocations have returned; the mapping in the store,
\* written by the one that loaded first and wrote last, lacks a voter the
\* other has written.
C14_Witness ==
    \E p, q \in Invocations :
        /\ run[p].phase = "returned" /\ run[q].phase = "returned"
        /\ Written(p) = {store_get(store, seen_key_of(run[p].proposal_id))}
        /\ \E text \in Written(q) :
            ~(Keys(json_loads(text)) \subseteq Keys(Persisted(store, run[q].proposal_id)))

\* C19: every voter of the mapping the store holds for a proposal has been
\* posted to the webhook with success at least once (the store holds no
\* mapping at the start), whatever the interleaving of the invocations and
\* whichever calls fail.
C19_SeenOnlyIfNotified ==
    \A proposal_id \in KnownProposals :
        Keys(Persisted(store, proposal_id)) \subseteq notified[proposal_id]

\* C19, its case: the store holds two voters, written by an invocation that
\* ran beside another one whose post failed.
C19_Witness ==
    \E p, q \in Invocations :
        /\ Cardinality(Keys(Persisted(store, <<"1">>))) = 2
        /\ run[p].phase = "returned"
        /\ PostFailed(q)
        /\ run[q].mark < Len(io[q])

-----------------------------------------------------------------------------
(* fetch_validators on every list of validators *)

\* SpecValidators: process_proposal up to the end of fetch_validators, for
\* every list of up to MaxValidators validators of two operators with 0 to
\* 2 tokens; an operator may be listed more than once, on one page or on
\* several.  Both operator addresses decode, so that the account mapping
\* process_proposal keeps (line 102) has an entry for every validator of
\* the result.
ValidatorChoices ==
    {Validator(Operator(n), tokens, IF n = 1 THEN "alice" ELSE "bob") :
        n \in 1..2, tokens \in 0..2}

InitValidators ==
    InitWith({<<"1">>}, {"url"}, {"None"},
             {EmptyChain}, SeqsUpTo(ValidatorChoices, MaxValidators),
             {<<>>}, {{"inv1"}})

NextValidators ==
    \E p \in Invocations :
        \/ HandlerStart(p)
        \/ BeginProposal(p)
        \/ FetchVotesPage(p)
        \/ FetchValidatorsPage(p)

SpecValidators == InitValidators /\ [][NextValidators]_vars

\* The sum of f[x].tokens, and of the numerators of f[x].voting_power_pct,
\* over the x in S
RECURSIVE SumTokens(_, _)
SumTokens(f, S) ==
    IF S = {} THEN 0
    ELSE LET x == CHOOSE y \in S : TRUE IN f[x].tokens + SumTokens(f, S \ {x})

RECURSIVE SumPctNum(_, _)
SumPctNum(f, S) ==
    IF S = {} THEN 0
    ELSE LET x == CHOOSE y \in S : TRUE IN f[x].voting_power_pct.num + SumPctNum(f, S \ {x})

\* fetch_validators has returned to process_proposal
ValidatorsFetched(p) == inv[p].pc = "load"

\* C17: the percentages of the validators fetch_validators returns sum to
\* 100 when their stake is greater than 0 (they share the denominator, the
\* sum of the tokens of the validators kept, also when an operator is
\* listed more than once); when it is 0 every percentage is 0; with no
\* validator the result is empty.
C17_PercentagesSumTo100 ==
    \A p \in Invocations :
        ValidatorsFetched(p)
        => LET kept == inv[p].validator_by_account
               total == SumTokens(kept, DOMAIN kept)
           IN  /\ bonded = <<>> => kept = <<>>
               /\ total = 0
                    => \A a \in DOMAIN kept : kept[a].voting_power_pct = [num |-> 0, den |-> 1]
               /\ total > 0
                    => /\ \A a \in DOMAIN kept : kept[a].voting_power_pct.den = total
                       /\ SumPctNum(kept, DOMAIN kept) = 100 * total

-----------------------------------------------------------------------------
(* The schedule without end *)

\* The trigger layer goes on for ever: when MaxRuns invocations have been
\* started and none is running, the count and the clock start over.  The
\* code compares no two clock values (datetime.now() is only written into
\* the record of a new voter, line 116).
ScheduleGoesOn ==
    /\ Quiet
    /\ runs = MaxRuns
    /\ runs' = 0
    /\ now' = 0
    /\ UNCHANGED <<env, chain, bonded, store, procs, inv, io, run, last, notified>>

\* An invocation completes with no failure: handler returns 200, and the
\* responses of the API have carried every vote the chain lists.
CleanCompletion(p) ==
    /\ ReturnOK(p)
    /\ run[p].phase = "returned"
    /\ Voted(chain[run[p].proposal_id]) \subseteq Voted(inv[p].votes)

\* SpecLive: one invocation after the other on proposal 1, for ever;
\* accounts vote at any moment.  Every call of an invocation returns or
\* raises (each request has a timeout), so an invocation that can take a
\* step takes one; and, as the claim assumes, again and again an
\* invocation completes with no failure.
InitLive ==
    InitWith({<<>>, <<"1", ",">>}, {"url"}, {"None", "url"},
             {EmptyChain}, {<<BondedList[1]>>},
             {<<>>, StoreWith(<<"1">>, Garbage)},
             {{"inv1"}})

NextLive ==
    \/ \E p \in Invocations : InvocationStep(p)
    \/ \E vote \in RaceVotes :
        /\ vote.voter \notin Voted(chain[<<"1">>])
        /\ CastVote(<<"1">>, vote)
    \/ ScheduleGoesOn

FairLive ==
    /\ \A p \in Invocations : WF_vars(InvocationStep(p))
    /\ WF_vars(ScheduleGoesOn)
    /\ []<><<\E p \in Invocations : CleanCompletion(p)>>_vars

SpecLive == InitLive /\ [][NextLive]_vars /\ FairLive

Listed(voter) == voter \in Voted(chain[<<"1">>])
Recorded(voter) ==
    /\ voter \in notified[<<"1">>]
    /\ voter \in Keys(Persisted(store, <<"1">>))

\* C20: a vote the chain lists for the configured proposal is eventually
\* posted to the webhook and recorded in the persisted mapping, when
\* invocations keep being triggered and again and again one of them
\* completes with no failure.
C20_EventuallyNotified ==
    \A voter \in FewVoters : Listed(voter) ~> Recorded(voter)

\* C20, its case: the vote of an account was listed while an invocation
\* failed, and a later invocation has posted and recorded it.
C20_Witness ==
    \E p \in Invocations :
        /\ run[p].prev.unpersisted # <<>>
        /\ run[p].phase = "returned"
        /\ \A k \in DOMAIN run[p].prev.unpersisted :
                Recorded(run[p].prev.unpersisted[k].voter)

====
